---- MODULE Spec2Model ----
(***************************************************************************)
(* A model of mongoengine/django/mongo_auth/documents.py: the credential   *)
(* operations of AbstractBaseUser (set_password, check_password with its   *)
(* rehash setter, set_unusable_password, has_usable_password) and the      *)
(* permission checks of PermissionsMixin (has_perm, has_perms,             *)
(* has_module_perms), on one user document and its persisted record.       *)
(***************************************************************************)
EXTENDS Integers, Sequences, FiniteSets, TLC

\* ------------------------------------------------------------- bounds
NumPlain == 2      \* distinct plaintext passwords
MaxScheme == 1     \* hashing schemes are 0..MaxScheme; the default only moves up
MaxOther == 2      \* values another request may write to the unrelated field
NumPerms == 2      \* distinct permission names / app labels
MaxPermList == 2   \* longest perm_list handed to has_perms

Plaintexts == 1..NumPlain
Schemes == 0..MaxScheme
Perms == 1..NumPerms
PermLists == UNION {[1..n -> Perms] : n \in 0..MaxPermList}

VARIABLES
    password,       \* self.password, the in-memory field of the document
    other,          \* an unrelated in-memory field of the same document (e.g. last_login)
    db,             \* the persisted record: [password, other]
    preferred,      \* the hashing oracle's current default scheme
    is_active,      \* self.is_active
    is_superuser,   \* self.is_superuser
    pc,             \* position of the request inside check_password
    call,           \* the operation in progress or last completed, its argument and result
    prev,           \* the operation completed just before it
    pre,            \* self.password and the persisted password when `call` was entered
    writes,         \* persistence writes issued by `call` so far
    backend_calls,  \* permission-backend consultations made by `call`
    io_error,       \* the persistence layer raised inside `call`
    concurrent,     \* another request wrote the record while `call` was in check_password
    other_written,  \* the last value another request wrote to the unrelated field
    last_set,       \* the plaintext of the latest set_password on this record (0: none)
    granted         \* what the permission backends grant, as consulted by `call`

vars == <<password, other, db, preferred, is_active, is_superuser, pc, call, prev,
          pre, writes, backend_calls, io_error, concurrent, other_written, granted,
          last_set>>

\* ------------------------------------------------- stored password values
\* The password field holds None (never assigned), the unusable sentinel, or
\* a self-describing hash: the scheme it was made under and what it hashes.
None == [kind |-> "none", alg |-> 0, raw |-> 0]
UNUSABLE_PASSWORD == [kind |-> "unusable", alg |-> 0, raw |-> 0]
encode(raw, alg) == [kind |-> "hash", alg |-> alg, raw |-> raw]

\* django.contrib.auth.hashers.make_password: the sentinel for None, else a
\* hash of raw under the current default scheme.
make_password(raw, default) ==
    IF raw = 0 THEN UNUSABLE_PASSWORD ELSE encode(raw, default)

\* django.contrib.auth.hashers.is_password_usable
is_password_usable(encoded) == encoded.kind = "hash"

\* hasher.verify: raw hashed under the scheme embedded in encoded equals encoded
hasher_verify(raw, encoded) == encode(raw, encoded.alg) = encoded

\* the stored hash's scheme is no longer the default
must_update(encoded, default) == encoded.alg # default

\* django.contrib.auth.hashers.check_password, up to the call of the setter
hashers_check_password(raw, encoded, default) ==
    IF ~is_password_usable(encoded)
    THEN [is_correct |-> FALSE, call_setter |-> FALSE]
    ELSE [is_correct |-> hasher_verify(raw, encoded),
          call_setter |-> hasher_verify(raw, encoded) /\ must_update(encoded, default)]

\* Document.save(update_fields=...): a write of the named fields only
Fields == {"password", "other"}
save(record, doc, update_fields) ==
    [f \in Fields |-> IF f \in update_fields THEN doc[f] ELSE record[f]]

Bool(b) == IF b THEN "True" ELSE "False"

\* bookkeeping shared by every operation's entry
Enter(g, consulted) ==
    /\ granted' = g
    /\ prev' = [op |-> call.op, arg |-> call.arg]
    /\ pre' = [password |-> password, db_password |-> db.password,
                last_set |-> last_set]
    /\ writes' = 0
    /\ backend_calls' = consulted
    /\ io_error' = FALSE
    /\ concurrent' = FALSE

Init ==
    /\ password \in {None, UNUSABLE_PASSWORD} \cup {encode(p, 0) : p \in Plaintexts}
    /\ other = 0
    /\ db = [password |-> password, other |-> 0]
    /\ preferred = 0
    /\ is_active = TRUE
    /\ is_superuser = FALSE
    /\ pc = "idle"
    /\ call = [op |-> "load", arg |-> 0, ret |-> "None", outcome |-> "returned"]
    /\ prev = [op |-> "load", arg |-> 0]
    /\ pre = [password |-> password, db_password |-> password,
              last_set |-> password.raw]
    /\ last_set = password.raw
    /\ writes = 0
    /\ backend_calls = 0
    /\ io_error = FALSE
    /\ concurrent = FALSE
    /\ other_written = 0
    /\ granted = {}

\* ------------------------------------------------- AbstractBaseUser
\* set_password that drops its argument on the way to the hashing oracle
set_password_drops_raw(raw_password) ==
    /\ pc = "idle"
    /\ password' = make_password(0, preferred)
    /\ call' = [op |-> "set_password", arg |-> raw_password,
                ret |-> "None", outcome |-> "returned"]
    /\ Enter({}, 0)
    /\ last_set' = raw_password
    /\ UNCHANGED <<other, db, preferred, is_active, is_superuser, pc, other_written>>

\* set_password that also saves the document
set_password_saves(raw_password) ==
    /\ pc = "idle"
    /\ password' = make_password(raw_password, preferred)
    /\ db' = save(db, [password |-> password', other |-> other], {"password"})
    /\ call' = [op |-> "set_password", arg |-> raw_password,
                ret |-> "None", outcome |-> "returned"]
    /\ Enter({}, 0)
    /\ last_set' = raw_password
    /\ UNCHANGED <<other, preferred, is_active, is_superuser, pc, other_written>>

set_password(raw_password) ==
    /\ pc = "idle"
    /\ password' = make_password(raw_password, preferred)
    /\ call' = [op |-> "set_password", arg |-> raw_password,
                ret |-> "None", outcome |-> "returned"]
    /\ Enter({}, 0)
    /\ last_set' = raw_password
    /\ UNCHANGED <<other, db, preferred, is_active, is_superuser, pc, other_written>>

\* set_unusable_password that hashes a value instead of asking for the sentinel
set_unusable_password_hashes ==
    /\ pc = "idle"
    /\ password' = make_password(1, preferred)
    /\ call' = [op |-> "set_unusable_password", arg |-> 0,
                ret |-> "None", outcome |-> "returned"]
    /\ Enter({}, 0)
    /\ last_set' = 0
    /\ UNCHANGED <<other, db, preferred, is_active, is_superuser, pc, other_written>>

set_unusable_password ==
    /\ pc = "idle"
    /\ password' = make_password(0, preferred)
    /\ call' = [op |-> "set_unusable_password", arg |-> 0,
                ret |-> "None", outcome |-> "returned"]
    /\ Enter({}, 0)
    /\ last_set' = 0
    /\ UNCHANGED <<other, db, preferred, is_active, is_superuser, pc, other_written>>

has_usable_password ==
    /\ pc = "idle"
    /\ call' = [op |-> "has_usable_password", arg |-> 0,
                ret |-> Bool(is_password_usable(password)), outcome |-> "returned"]
    /\ Enter({}, 0)
    /\ UNCHANGED <<password, other, db, preferred, is_active, is_superuser, pc,
                   other_written, last_set>>

\* check_password that takes the upgrade path without looking at the comparison
check_password_upgrades_unverified(raw_password) ==
    /\ pc = "idle"
    /\ LET r == hashers_check_password(raw_password, password, preferred)
       IN IF is_password_usable(password) /\ must_update(password, preferred)
          THEN /\ pc' = "setter_set_password"
               /\ call' = [op |-> "check_password", arg |-> raw_password,
                           ret |-> "None", outcome |-> "running"]
          ELSE /\ pc' = "idle"
               /\ call' = [op |-> "check_password", arg |-> raw_password,
                           ret |-> Bool(r.is_correct), outcome |-> "returned"]
    /\ Enter({}, 0)
    /\ UNCHANGED <<password, other, db, preferred, is_active, is_superuser,
                   other_written, last_set>>

\* check_password that calls the setter after every successful comparison
check_password_always_rehashes(raw_password) ==
    /\ pc = "idle"
    /\ LET r == hashers_check_password(raw_password, password, preferred)
       IN IF r.is_correct
          THEN /\ pc' = "setter_set_password"
               /\ call' = [op |-> "check_password", arg |-> raw_password,
                           ret |-> "None", outcome |-> "running"]
          ELSE /\ pc' = "idle"
               /\ call' = [op |-> "check_password", arg |-> raw_password,
                           ret |-> Bool(r.is_correct), outcome |-> "returned"]
    /\ Enter({}, 0)
    /\ UNCHANGED <<password, other, db, preferred, is_active, is_superuser,
                   other_written, last_set>>

\* check_password up to the point where the hashing oracle either returns
\* or calls back the setter
check_password(raw_password) ==
    /\ pc = "idle"
    /\ LET r == hashers_check_password(raw_password, password, preferred)
       IN IF r.call_setter
          THEN /\ pc' = "setter_set_password"
               /\ call' = [op |-> "check_password", arg |-> raw_password,
                           ret |-> "None", outcome |-> "running"]
          ELSE /\ pc' = "idle"
               /\ call' = [op |-> "check_password", arg |-> raw_password,
                           ret |-> Bool(r.is_correct), outcome |-> "returned"]
    /\ Enter({}, 0)
    /\ UNCHANGED <<password, other, db, preferred, is_active, is_superuser,
                   other_written, last_set>>

\* setter, first statement: self.set_password(raw_password)
setter_set_password ==
    /\ pc = "setter_set_password"
    /\ password' = make_password(call.arg, preferred)
    /\ last_set' = call.arg
    /\ pc' = "setter_save"
    /\ UNCHANGED <<other, db, preferred, is_active, is_superuser, call, prev, pre,
                   writes, backend_calls, io_error, concurrent, other_written, granted>>

\* the setter without its save
setter_save_skipped ==
    /\ pc = "setter_save"
    /\ pc' = "idle"
    /\ call' = [call EXCEPT !.ret = Bool(TRUE), !.outcome = "returned"]
    /\ UNCHANGED <<password, other, db, preferred, is_active, is_superuser, prev, pre,
                   writes, backend_calls, io_error, concurrent, other_written, granted,
                   last_set>>

\* the setter saving the whole document instead of update_fields=["password"]
setter_save_all_fields ==
    /\ pc = "setter_save"
    /\ db' = save(db, [password |-> password, other |-> other], Fields)
    /\ writes' = writes + 1
    /\ pc' = "idle"
    /\ call' = [call EXCEPT !.ret = Bool(TRUE), !.outcome = "returned"]
    /\ UNCHANGED <<password, other, preferred, is_active, is_superuser, prev, pre,
                   backend_calls, io_error, concurrent, other_written, granted,
                   last_set>>

\* setter, second statement: self.save(update_fields=["password"]); the
\* write goes through and check_password returns the comparison's result
setter_save ==
    /\ pc = "setter_save"
    /\ db' = save(db, [password |-> password, other |-> other], {"password"})
    /\ writes' = writes + 1
    /\ pc' = "idle"
    /\ call' = [call EXCEPT !.ret = Bool(TRUE), !.outcome = "returned"]
    /\ UNCHANGED <<password, other, preferred, is_active, is_superuser, prev, pre,
                   backend_calls, io_error, concurrent, other_written, granted,
                   last_set>>

\* a setter that swallows the persistence error
setter_save_swallows ==
    /\ pc = "setter_save"
    /\ writes' = writes + 1
    /\ io_error' = TRUE
    /\ pc' = "idle"
    /\ call' = [call EXCEPT !.ret = Bool(TRUE), !.outcome = "returned"]
    /\ UNCHANGED <<password, other, db, preferred, is_active, is_superuser, prev, pre,
                   backend_calls, concurrent, other_written, granted,
                   last_set>>

\* the same statement when the persistence layer raises: nothing catches it
\* between save and the caller of check_password
setter_save_fails ==
    /\ pc = "setter_save"
    /\ writes' = writes + 1
    /\ io_error' = TRUE
    /\ pc' = "idle"
    /\ call' = [call EXCEPT !.outcome = "raised"]
    /\ UNCHANGED <<password, other, db, preferred, is_active, is_superuser, prev, pre,
                   backend_calls, concurrent, other_written, granted,
                   last_set>>

\* ------------------------------------------------- PermissionsMixin
\* django.contrib.auth.models._user_has_perm / _user_has_module_perms: true
\* iff some backend grants it; g is what the backends grant this user
_user_has_perm(g, perm) == perm \in g
_user_has_module_perms(g, app_label) == app_label \in g

\* has_perm with the superuser shortcut not asking for is_active
has_perm_value_any_superuser(active, superuser, g, perm) ==
    IF superuser
    THEN [ret |-> TRUE, consulted |-> 0]
    ELSE [ret |-> _user_has_perm(g, perm), consulted |-> 1]

\* has_perm without the superuser shortcut
has_perm_value_backends_only(active, superuser, g, perm) ==
    [ret |-> _user_has_perm(g, perm), consulted |-> 1]

\* has_perm's value and the number of backend consultations it makes
has_perm_value(active, superuser, g, perm) ==
    IF active /\ superuser
    THEN [ret |-> TRUE, consulted |-> 0]
    ELSE [ret |-> _user_has_perm(g, perm), consulted |-> 1]

\* has_perms: the loop over perm_list from position i, stopping at the first
\* permission has_perm denies
RECURSIVE has_perms_value(_, _, _, _, _)
has_perms_value(active, superuser, g, perm_list, i) ==
    IF i > Len(perm_list)
    THEN [ret |-> TRUE, consulted |-> 0]
    ELSE LET h == has_perm_value(active, superuser, g, perm_list[i])
         IN IF ~h.ret
            THEN [ret |-> FALSE, consulted |-> h.consulted]
            ELSE LET rest == has_perms_value(active, superuser, g, perm_list, i + 1)
                 IN [ret |-> rest.ret, consulted |-> h.consulted + rest.consulted]

has_module_perms_value(active, superuser, g, app_label) ==
    IF active /\ superuser
    THEN [ret |-> TRUE, consulted |-> 0]
    ELSE [ret |-> _user_has_module_perms(g, app_label), consulted |-> 1]

PermissionCall(op, arg, g, r) ==
    /\ pc = "idle"
    /\ call' = [op |-> op, arg |-> arg, ret |-> Bool(r.ret), outcome |-> "returned"]
    /\ granted' = g
    /\ backend_calls' = r.consulted
    /\ UNCHANGED <<password, other, db, preferred, is_active, is_superuser, pc, prev,
                   pre, writes, io_error, concurrent, other_written, last_set>>

has_perm(perm, g) ==
    PermissionCall("has_perm", perm, g, has_perm_value(is_active, is_superuser, g, perm))

has_perms(perm_list, g) ==
    PermissionCall("has_perms", perm_list, g,
                   has_perms_value(is_active, is_superuser, g, perm_list, 1))

has_module_perms(app_label, g) ==
    PermissionCall("has_module_perms", app_label, g,
                   has_module_perms_value(is_active, is_superuser, g, app_label))

\* ------------------------------------------------- environment
\* another in-flight request writes the unrelated field of the persisted record
OtherRequestWrite ==
    /\ other_written < MaxOther
    /\ other_written' = other_written + 1
    /\ db' = [db EXCEPT !.other = other_written + 1]
    /\ concurrent' = (concurrent \/ pc # "idle")
    /\ UNCHANGED <<password, other, preferred, is_active, is_superuser, pc, call, prev,
                   pre, writes, backend_calls, io_error, granted, last_set>>

\* the framework's default hashing scheme is replaced by a newer one
UpgradeDefault ==
    /\ pc = "idle"
    /\ preferred < MaxScheme
    /\ preferred' = preferred + 1
    /\ call' = [op |-> "upgrade_default", arg |-> 0, ret |-> "None",
                outcome |-> "returned"]
    /\ Enter({}, 0)
    /\ UNCHANGED <<password, other, db, is_active, is_superuser, pc, other_written, last_set>>

Next ==
    \/ \E raw_password \in Plaintexts : set_password(raw_password)
    \/ \E raw_password \in Plaintexts : check_password(raw_password)
    \/ setter_set_password
    \/ setter_save
    \/ setter_save_fails
    \/ set_unusable_password
    \/ has_usable_password
    \/ OtherRequestWrite
    \/ UpgradeDefault

Spec == Init /\ [][Next]_vars

\* The permission checks read is_active, is_superuser and the backends only:
\* they are checked on records with every setting of the two flags.
PermInit ==
    /\ password = None
    /\ other = 0
    /\ db = [password |-> None, other |-> 0]
    /\ preferred = 0
    /\ is_active \in BOOLEAN
    /\ is_superuser \in BOOLEAN
    /\ pc = "idle"
    /\ call = [op |-> "load", arg |-> 0, ret |-> "None", outcome |-> "returned"]
    /\ prev = [op |-> "load", arg |-> 0]
    /\ pre = [password |-> None, db_password |-> None, last_set |-> 0]
    /\ last_set = 0
    /\ writes = 0
    /\ backend_calls = 0
    /\ io_error = FALSE
    /\ concurrent = FALSE
    /\ other_written = 0
    /\ granted = {}

PermNext ==
    \/ \E perm \in Perms, g \in SUBSET Perms : has_perm(perm, g)
    \/ \E perm_list \in PermLists, g \in SUBSET Perms : has_perms(perm_list, g)
    \/ \E app_label \in Perms, g \in SUBSET Perms : has_module_perms(app_label, g)

PermSpec == PermInit /\ [][PermNext]_vars

\* ------------------------------------------------- properties
CheckReturned == call.op = "check_password" /\ call.outcome = "returned"

\* C1: right after set_password(p), from any prior credential state, the
\* stored value is a usable hash that check_password(p) accepts without a
\* rehash; a check_password(p) or has_usable_password() called next returns true.
C1_SetThenVerify ==
    /\ call.op = "set_password" =>
          /\ is_password_usable(password)
          /\ hashers_check_password(call.arg, password, preferred)
                = [is_correct |-> TRUE, call_setter |-> FALSE]
    /\ (call.op = "check_password" /\ prev.op = "set_password" /\ prev.arg = call.arg) =>
          (call.outcome = "returned" /\ call.ret = "True")
    /\ (call.op = "has_usable_password" /\ prev.op = "set_password") =>
          call.ret = "True"

\* a check_password(p) that directly followed set_password(p) on a record
\* whose password had been unusable, and returned true
C1_Witness ==
    /\ CheckReturned
    /\ prev.op = "set_password"
    /\ prev.arg = call.arg
    /\ db.password = UNUSABLE_PASSWORD
    /\ call.ret = "True"

\* C2: with the latest set_password being set_password(p), check_password(q)
\* for q # p returns false, never enters the rehash and writes nothing, also
\* when the stored hash is under an outdated scheme.
C2_WrongPasswordRejected ==
    (call.op = "check_password" /\ pre.last_set # 0 /\ pre.last_set # call.arg) =>
        /\ call.outcome = "returned"
        /\ call.ret = "False"
        /\ writes = 0
        /\ password = pre.password

\* a wrong password checked against a hash whose scheme is outdated
C2_Witness ==
    /\ CheckReturned
    /\ pre.last_set # 0
    /\ pre.last_set # call.arg
    /\ is_password_usable(pre.password)
    /\ must_update(pre.password, preferred)
    /\ call.ret = "False"

\* C3: set_unusable_password stores the unusable sentinel; on an unusable
\* password every check_password and has_usable_password returns false; and
\* every operation other than set_password that is entered with the password
\* unusable leaves it unusable.
C3_UnusableStaysUnusable ==
    /\ call.op = "set_unusable_password" => password = UNUSABLE_PASSWORD
    /\ (pre.password = UNUSABLE_PASSWORD
          /\ call.op \in {"check_password", "has_usable_password"}) =>
          (call.outcome = "returned" /\ call.ret = "False")
    /\ (pre.password = UNUSABLE_PASSWORD /\ call.op # "set_password") =>
          password = UNUSABLE_PASSWORD

\* a check_password that directly followed set_unusable_password, on a record
\* that had a usable password before, and returned false
C3_Witness ==
    /\ CheckReturned
    /\ prev.op = "set_unusable_password"
    /\ pre.password = UNUSABLE_PASSWORD
    /\ is_password_usable(db.password)
    /\ call.arg = db.password.raw
    /\ call.ret = "False"

\* the comparison check_password was entered with succeeded on a hash whose
\* scheme is not the default
RehashDue ==
    /\ call.op = "check_password"
    /\ is_password_usable(pre.password)
    /\ hasher_verify(call.arg, pre.password)
    /\ must_update(pre.password, preferred)

\* C4: a check_password(p) that succeeds on a hash needing upgrade and
\* returns has replaced the stored hash by one of p under the default scheme
\* and persisted it with one write before returning true; in that state
\* check_password(p) succeeds again with no rehash due, and a check_password(p)
\* repeated directly after another never writes.
C4_RehashOnVerify ==
    /\ (RehashDue /\ call.outcome = "returned") =>
          /\ call.ret = "True"
          /\ password = encode(call.arg, preferred)
          /\ password # pre.password
          /\ db.password = password
          /\ writes = 1
          /\ ~must_update(password, preferred)
          /\ hashers_check_password(call.arg, password, preferred)
                = [is_correct |-> TRUE, call_setter |-> FALSE]
    /\ (call.op = "check_password" /\ prev.op = "check_password"
          /\ prev.arg = call.arg) =>
          (call.outcome = "returned" /\ writes = 0)

\* a rehashing check_password that returned, on a record whose persisted
\* hash was the outdated one
C4_Witness ==
    /\ RehashDue
    /\ call.outcome = "returned"
    /\ pre.db_password = pre.password
    /\ db.password = encode(call.arg, preferred)

\* C5: no operation of this request overwrites the unrelated field: the
\* persisted record always holds the value another request wrote last, and
\* after a rehashing check_password returned it also holds the rehashed
\* password.
C5_PartialWriteIsolation ==
    /\ db.other = other_written
    /\ (RehashDue /\ call.outcome = "returned") =>
          (db.password = password /\ password = encode(call.arg, preferred))

\* another request wrote the unrelated field while check_password was between
\* its comparison and its save, and the rehash completed
C5_Witness ==
    /\ RehashDue
    /\ call.outcome = "returned"
    /\ concurrent
    /\ writes = 1
    /\ db.other # other
    /\ db.other = other_written
    /\ db.password = password

\* C8: has_usable_password, a check_password that returns false and a
\* successful check_password on a hash that needs no upgrade leave the
\* in-memory hash and the persisted password as they were and write nothing;
\* the in-memory hash differs from its value at entry only after set_password,
\* set_unusable_password or the set_password of check_password's rehash.
C8_HashMutatedOnlyBySetters ==
    /\ (\/ call.op = "has_usable_password"
        \/ (CheckReturned /\ call.ret = "False")
        \/ (CheckReturned /\ call.ret = "True"
              /\ ~must_update(pre.password, preferred))) =>
          /\ password = pre.password
          /\ db.password = pre.db_password
          /\ writes = 0
    /\ password # pre.password =>
          \/ call.op \in {"set_password", "set_unusable_password"}
          \/ (RehashDue /\ password = make_password(call.arg, preferred))

\* a successful check_password on an up-to-date hash that differs from the
\* persisted one
C8_Witness ==
    /\ CheckReturned
    /\ call.ret = "True"
    /\ ~must_update(pre.password, preferred)
    /\ db.password # password
    /\ writes = 0

\* C9: once check_password is over, it raised iff the persistence layer
\* raised during the rehash (which only happens after a successful
\* comparison); otherwise it returned the result of comparing its argument
\* with the hash it was entered with, rehash or not.
C9_SaveFailurePropagates ==
    (call.op = "check_password" /\ pc = "idle") =>
        /\ io_error => (call.outcome = "raised" /\ RehashDue)
        /\ ~io_error =>
              /\ call.outcome = "returned"
              /\ call.ret = Bool(is_password_usable(pre.password)
                                   /\ hasher_verify(call.arg, pre.password))

\* a check_password whose comparison succeeded and whose rehash save raised
C9_Witness ==
    /\ call.op = "check_password"
    /\ pc = "idle"
    /\ io_error
    /\ RehashDue
    /\ call.outcome = "raised"

\* C10: set_password and set_unusable_password write nothing and leave the
\* persisted password as it was; only check_password ever writes; when the
\* setter reaches its save the in-memory hash is already the new one; and
\* after a failed rehash save the in-memory hash is the new one while the
\* persisted password is the one from before the call.
C10_OnlyRehashWrites ==
    /\ call.op \in {"set_password", "set_unusable_password"} =>
          (writes = 0 /\ db.password = pre.db_password)
    /\ writes > 0 => RehashDue
    /\ pc = "setter_save" =>
          /\ password = make_password(call.arg, preferred)
          /\ db.password = pre.db_password
          /\ writes = 0
    /\ (call.op = "check_password" /\ call.outcome = "raised") =>
          /\ password = make_password(call.arg, preferred)
          /\ password # pre.password
          /\ db.password = pre.db_password

\* a failed rehash save: new hash in memory, the outdated one persisted
C10_Witness ==
    /\ call.op = "check_password"
    /\ call.outcome = "raised"
    /\ db.password = pre.password
    /\ password = encode(call.arg, preferred)
    /\ must_update(db.password, preferred)

\* ------------------------------------------------- permission properties
PermissionOps == {"has_perm", "has_perms", "has_module_perms"}

\* what the backends alone answer for the call's argument
BackendAnswer ==
    CASE call.op = "has_perm" -> _user_has_perm(granted, call.arg)
      [] call.op = "has_perms" ->
            \A i \in 1..Len(call.arg) : _user_has_perm(granted, call.arg[i])
      [] call.op = "has_module_perms" -> _user_has_module_perms(granted, call.arg)
      [] OTHER -> FALSE

\* C6 as stated: with is_active false, has_perm, has_perms on a non-empty list
\* and has_module_perms return false whatever the backends answer.
C6_InactiveAlwaysDenied ==
    (call.op \in PermissionOps /\ ~is_active
       /\ (call.op = "has_perms" => Len(call.arg) > 0)) =>
        call.ret = "False"

\* C6 amended: with is_active false the checks ignore is_superuser and return
\* what the backends answer, consulting them; they return false when no
\* backend grants anything.
C6_InactiveDefersToBackends ==
    (call.op \in PermissionOps /\ ~is_active) =>
        /\ call.ret = Bool(BackendAnswer)
        /\ (call.op = "has_perms" => Len(call.arg) > 0) => backend_calls > 0
        /\ (granted = {} /\ (call.op = "has_perms" => Len(call.arg) > 0)) =>
              call.ret = "False"

\* an inactive superuser denied a permission no backend grants
C6_Witness ==
    /\ call.op = "has_perm"
    /\ ~is_active
    /\ is_superuser
    /\ granted = {}
    /\ call.ret = "False"
    /\ backend_calls = 1

\* C7: for an active superuser has_perm, has_perms and has_module_perms
\* return true for every argument and consult no backend.
C7_ActiveSuperuserAllowed ==
    (call.op \in PermissionOps /\ is_active /\ is_superuser) =>
        (call.ret = "True" /\ backend_calls = 0)

\* an active superuser granted a list of permissions no backend grants
C7_Witness ==
    /\ call.op = "has_perms"
    /\ Len(call.arg) = MaxPermList
    /\ is_active
    /\ is_superuser
    /\ granted = {}
    /\ call.ret = "True"
    /\ backend_calls = 0

====
